---------------------------- MODULE Spec2Model ----------------------------
(***************************************************************************)
(* Model of src/main.py: the Taiwan stock value scanner.                   *)
(*                                                                         *)
(*   get_tw_stock_list / fetch_and_parse  (roster acquisition, lines 24-124)*)
(*   st.cache_data(ttl=86400)             (roster cache, line 24)           *)
(*   analyze_stock                        (criterion evaluator, 148-190)    *)
(*   the scan loop under st.button        (batch scanner, 193-235)          *)
(*                                                                         *)
(* Text is modelled as a sequence of characters (one-character strings).   *)
(* The two header keywords are single tokens of that alphabet because the  *)
(* code only ever tests them with `in` and `==`.                           *)
(* Numbers are fixed point, in thousandths (10.0 is 10000).                *)
(***************************************************************************)
EXTENDS Integers, Sequences, FiniteSets, TLC

VARIABLES
    respListed,     \* what the exchange answers for strMode=2 in the last body run
    respOtc,        \* what the exchange answers for strMode=4 in the last body run
    df_stocks,      \* line 128: the roster the script holds
    st_error,       \* line 123: st.error was shown by the last body run
    sidebar,        \* lines 130-133: sidebar banner
    pc,             \* position of the script
    now,            \* wall clock, seconds
    cache,          \* st.cache_data entry of get_tw_stock_list
    netRequests,    \* HTTP requests issued by the last call of get_tw_stock_list
    rawTable,       \* dfs[0] handed to the header scan
    parsed,         \* what fetch_and_parse returned for rawTable
    info,           \* yfinance answer for one ticker
    criteria,       \* line 210: {'pe','pb','yield','roe'}
    res,            \* what analyze_stock returned
    start_idx,      \* line 145
    end_idx,        \* line 145
    target_stocks,  \* line 197
    results,        \* line 200
    i,              \* line 205: index of the loop
    log,            \* the yfinance answer and the verdict for each entry processed
    status_text     \* lines 202, 208, 220

vars == << respListed, respOtc, df_stocks, st_error, sidebar, pc, now, cache,
           netRequests, rawTable, parsed, info, criteria, res, start_idx,
           end_idx, target_stocks, results, i, log, status_text >>

rosterVars == << respListed, respOtc, df_stocks, st_error, sidebar >>
cacheVars  == << now, cache, netRequests >>
parseVars  == << rawTable, parsed >>
evalVars   == << info, res >>
scanVars   == << start_idx, end_idx, target_stocks, results, i, log, status_text >>

---------------------------------------------------------------------------
(* Bounds of the model.                                                    *)

MaxRows      == 2   \* rows of a segment table in the roster specification
MaxParseRows == 6   \* rows of the table in the header-scan specification
MaxScanRows  == 2   \* stock rows per segment in the scan specification
MaxTicks     == 5   \* clock advances in the cache specification

---------------------------------------------------------------------------
(* Text and cells.                                                         *)

Min(a, b) == IF a < b THEN a ELSE b

KW_CODE == "SecuritiesCode"   \* the word tested first on line 55
KW_NAME == "Name"             \* the word tested second on line 55
FWSPACE == "FWSP"             \* U+3000, the separator of lines 84-116

Str(s) == [t |-> "str", s |-> s]
NaN    == [t |-> "nan", s |-> << >>]

\* the column label of lines 82-116: KW_CODE + "and" + KW_NAME
CodeAndName == Str(<< KW_CODE, "and", KW_NAME >>)
\* the column label of lines 99-100
CodeLabel   == Str(<< "c", "o", "d", "e" >>)

\* Python `x in s` for a one-token x
Contains(s, x) == \E k \in 1..Len(s) : s[k] = x

FirstIndex(s, x) == CHOOSE k \in 1..Len(s) : s[k] = x /\ \A j \in 1..(k-1) : s[j] # x

\* Python s.split(sep)
RECURSIVE split(_, _)
split(s, sep) ==
    IF ~Contains(s, sep) THEN << s >>
    ELSE LET k == FirstIndex(s, sep)
         IN  << SubSeq(s, 1, k - 1) >> \o split(SubSeq(s, k + 1, Len(s)), sep)

---------------------------------------------------------------------------
(* Rows the exchange's table may hold (two columns).                       *)

rowHeader     == << CodeAndName, Str(<< "I", "S", "I", "N" >>) >>
rowHeaderCode == << CodeAndName, CodeLabel >>
rowHeaderSplit == << Str(<< KW_CODE >>), Str(<< KW_NAME >>) >>
rowTitle      == << Str(<< "S", "t", "o", "c", "k" >>), NaN >>
rowBlank      == << NaN, NaN >>
rowStock1     == << Str(<< "2", "3", "3", "0", FWSPACE, "T", "S", "M", "C" >>),
                    Str(<< "2", "3", "3", "0" >>) >>
rowStock2     == << Str(<< "1", "1", "0", "1", FWSPACE, "T", "C", "C" >>),
                    Str(<< "1", "1", "0", "1" >>) >>
rowWarrant    == << Str(<< "0", "3", "0", "0", "0", "1", FWSPACE, "W" >>), NaN >>

\* rows of the roster specification; a header row below the header stands
\* for any text cell without the separator
RowPool == { rowHeader, rowHeaderCode, rowHeaderSplit, rowBlank,
             rowStock1, rowStock2, rowWarrant }

SeqsUpTo(S, n) == UNION { [1..k -> S] : k \in 0..n }

Raise      == [kind |-> "raise", rows |-> << >>]   \* requests.get or read_html raises
NoDfs      == [kind |-> "nodfs", rows |-> << >>]   \* read_html returns []
Table(rws) == [kind |-> "table", rows |-> rws]

Responses == { Raise, NoDfs } \cup { Table(t) : t \in SeqsUpTo(RowPool, MaxRows) }

---------------------------------------------------------------------------
(* fetch_and_parse, lines 36-67.                                           *)

EmptyFrame == [columns |-> << >>, rows |-> << >>]    \* pd.DataFrame()

\* line 54-55: both keywords occur in str(df.iloc[i].values)
RowHasKeywords(row) ==
    /\ \E j \in 1..Len(row) : row[j].t = "str" /\ Contains(row[j].s, KW_CODE)
    /\ \E j \in 1..Len(row) : row[j].t = "str" /\ Contains(row[j].s, KW_NAME)

HeaderWindow == 5

\* lines 51-57, n is the 0-based loop index; -1 when the loop ends without break
RECURSIVE header_scan(_, _)
header_scan(df, n) ==
    IF n >= Min(HeaderWindow, Len(df)) THEN -1
    ELSE IF RowHasKeywords(df[n + 1]) THEN n
    ELSE header_scan(df, n + 1)

header_row_index(df) == header_scan(df, 0)

\* the slice of line 65 taken one row too early
RowsAfter_from_header(df, k) == SubSeq(df, k + 1, Len(df))

\* line 65: df.iloc[header_row_index + 1:]
RowsAfter(df, k) == SubSeq(df, k + 2, Len(df))

fetch_and_parse(resp) ==
    IF resp.kind = "raise" THEN [raised |-> TRUE, df |-> EmptyFrame]
    ELSE IF resp.kind = "nodfs" THEN [raised |-> FALSE, df |-> EmptyFrame]
    ELSE LET df == resp.rows
             k  == header_row_index(df)
         IN  IF k = -1 THEN [raised |-> FALSE, df |-> EmptyFrame]
             ELSE [raised |-> FALSE,
                   df |-> [columns |-> df[k + 1], rows |-> RowsAfter(df, k)]]

---------------------------------------------------------------------------
(* get_tw_stock_list, lines 25-124.                                        *)

HasColumn(frame, label) == \E j \in 1..Len(frame.columns) : frame.columns[j] = label

ColumnIndex(frame, label) == CHOOSE j \in 1..Len(frame.columns) : frame.columns[j] = label

SuffixTW  == << ".", "T", "W" >>
SuffixTWO == << ".", "T", "W", "O" >>

\* line 82: dropna(subset=[...]) on the concatenation raises KeyError when
\* neither frame has the column.  df_all is not read after line 91.
df_all_raises(df_listed, df_otc) ==
    ~HasColumn(df_listed, CodeAndName) /\ ~HasColumn(df_otc, CodeAndName)

\* lines 99-100 raising only for a frame that has rows
yf_ticker_raises_rows_only(frame) == Len(frame.rows) > 0 /\ ~HasColumn(frame, CodeLabel)

\* lines 99-100: frame['code'] + suffix raises KeyError without a 'code' column
yf_ticker_raises(frame) == ~HasColumn(frame, CodeLabel)

\* lines 107-118: row[...] raises KeyError for the first row when the column is absent
segment_loop_raises(frame) == Len(frame.rows) > 0 /\ ~HasColumn(frame, CodeAndName)

\* lines 108-111 / 115-118 for one row
RowListings(cell, suffix) ==
    IF cell.t = "str" /\ Contains(cell.s, FWSPACE)
    THEN LET parts == split(cell.s, FWSPACE)
             c == parts[1]
             n == parts[2]
         IN  IF Len(c) = 4
             THEN << [code |-> c, name |-> n, yf_ticker |-> c \o suffix] >>
             ELSE << >>
    ELSE << >>

RECURSIVE segment_loop(_, _, _, _)
segment_loop(rows, col, suffix, j) ==
    IF j > Len(rows) THEN << >>
    ELSE RowListings(rows[j][col], suffix) \o segment_loop(rows, col, suffix, j + 1)

SegmentListings(frame, suffix) ==
    IF Len(frame.rows) = 0 THEN << >>
    ELSE segment_loop(frame.rows, ColumnIndex(frame, CodeAndName), suffix, 1)

\* lines 122-124
Failure(n) == [df |-> << >>, err |-> TRUE, requests |-> n]

get_tw_stock_list(r1, r2) ==
    LET a == fetch_and_parse(r1)
    IN  IF a.raised THEN Failure(1)
        ELSE LET b == fetch_and_parse(r2)
             IN  IF b.raised THEN Failure(2)
                 ELSE IF df_all_raises(a.df, b.df) THEN Failure(2)
                 ELSE IF yf_ticker_raises(a.df) THEN Failure(2)
                 ELSE IF yf_ticker_raises(b.df) THEN Failure(2)
                 ELSE IF segment_loop_raises(a.df) THEN Failure(2)
                 ELSE IF segment_loop_raises(b.df) THEN Failure(2)
                 ELSE [df |-> SegmentListings(a.df, SuffixTW)
                                \o SegmentListings(b.df, SuffixTWO),
                       err |-> FALSE, requests |-> 2]

\* lines 130-133
SidebarOf(df) == IF df # << >> THEN "success" ELSE "error"


---------------------------------------------------------------------------
(* analyze_stock, lines 148-190.                                           *)

Absent == [k |-> "absent", v |-> 0]     \* the key is not in the dict
None   == [k |-> "none", v |-> 0]       \* the key maps to None
Val(n) == [k |-> "val", v |-> n]

Sentinel999 == 999000    \* 999, lines 159-160 and 166-167
Percent     == 100       \* lines 169-170

\* dict.get(key, default)
get(field, default) == IF field.k = "absent" THEN Val(default) ELSE field

\* lines 164-167: `if x is None: x = default`
none_to(x, default) == IF x.k = "none" THEN default ELSE x.v

\* lines 159 and 166 with the default of lines 161-162
pe_of_zero_default(snap) == none_to(get(snap.trailingPE, 0), 0)

pe_of(snap)  == none_to(get(snap.trailingPE, Sentinel999), Sentinel999)
pb_of(snap)  == none_to(get(snap.priceToBook, Sentinel999), Sentinel999)
dy_of(snap)  == none_to(get(snap.dividendYield, 0), 0)
roe_of(snap) == none_to(get(snap.returnOnEquity, 0), 0)

\* round(x, 2) on thousandths, to the nearest hundredth (ties to even)
Round2(v) ==
    LET q == v \div 10
        r == v % 10
    IN  10 * (IF r < 5 THEN q
              ELSE IF r > 5 THEN q + 1
              ELSE IF q % 2 = 0 THEN q ELSE q + 1)

\* lines 172-175 with >= for the two minimums
passes_nonstrict(pe, pb, dy_pct, roe_pct, c) ==
    pe < c.pe /\ pb < c.pb /\ dy_pct >= c.yield /\ roe_pct >= c.roe

\* lines 172-175
passes(pe, pb, dy_pct, roe_pct, c) ==
    pe < c.pe /\ pb < c.pb /\ dy_pct > c.yield /\ roe_pct > c.roe

EmptyRec == [code |-> << >>, name |-> << >>, price |-> None, pe |-> 0, pb |-> 0,
             dy_pct |-> 0, roe_pct |-> 0, industry |-> "N/A"]
ReturnNone == [some |-> FALSE, rec |-> EmptyRec]

analyze_stock(ticker_info, snap, c) ==
    IF snap.raises THEN ReturnNone                        \* lines 188-189
    ELSE IF snap.currentPrice.k = "absent" THEN ReturnNone   \* lines 156-157
    ELSE LET pe      == pe_of(snap)
             pb      == pb_of(snap)
             dy_pct  == dy_of(snap) * Percent
             roe_pct == roe_of(snap) * Percent
         IN  IF passes(pe, pb, dy_pct, roe_pct, c)
             THEN [some |-> TRUE,
                   rec |-> [code |-> ticker_info.code,
                            name |-> ticker_info.name,
                            price |-> snap.currentPrice,
                            pe |-> Round2(pe),
                            pb |-> Round2(pb),
                            dy_pct |-> Round2(dy_pct),
                            roe_pct |-> Round2(roe_pct),
                            industry |-> snap.industry]]
             ELSE ReturnNone                              \* line 190

---------------------------------------------------------------------------
(* st.cache_data(ttl=86400), line 24.                                      *)

TTL == 86400

\* an entry that never expires
fresh_forever(c, t) == c.has

\* the entry is served while the clock is before storedAt + ttl
fresh(c, t) == c.has /\ t < c.storedAt + TTL

---------------------------------------------------------------------------
(* The scan loop, lines 193-220.                                           *)

\* lines 1-5: the modules the script imports
Imports == { "streamlit", "yfinance", "pandas", "requests", "urllib3" }

\* line 217: time.sleep(0.1) raises NameError unless `time` is bound
time_sleep_raises == "time" \notin Imports

\* df.iloc[start:end] taken from start + 1
iloc_from_next(df, s, e) == SubSeq(df, Min(s + 1, Len(df)) + 1, Min(e, Len(df)))

\* line 197: df_stocks.iloc[start_idx:end_idx]
iloc(df, s, e) == SubSeq(df, Min(s, Len(df)) + 1, Min(e, Len(df)))

\* line 214 without the test of line 213
collect_always(rs, r) == Append(rs, r.rec)

\* lines 213-214
collect(rs, r) == IF r.some THEN Append(rs, r.rec) ELSE rs

---------------------------------------------------------------------------
(* Values the variables of the other parts keep while one part runs.       *)

NoCache    == [has |-> FALSE, value |-> << >>, storedAt |-> 0]
NoParse    == [raised |-> FALSE, df |-> EmptyFrame]
NoInfo     == [raises |-> TRUE, currentPrice |-> Absent, trailingPE |-> Absent,
               priceToBook |-> Absent, dividendYield |-> Absent,
               returnOnEquity |-> Absent, industry |-> "N/A"]
NoCriteria == [pe |-> 0, pb |-> 0, yield |-> 0, roe |-> 0]
NoResult   == ReturnNone

RosterIdle == /\ respListed = Raise /\ respOtc = Raise
              /\ df_stocks = << >> /\ st_error = FALSE /\ sidebar = "none"
CacheIdle  == now = 0 /\ cache = NoCache /\ netRequests = 0
ParseIdle  == rawTable = << >> /\ parsed = NoParse
EvalIdle   == info = NoInfo /\ res = NoResult
ScanIdle   == /\ start_idx = 0 /\ end_idx = 0 /\ target_stocks = << >>
              /\ results = << >> /\ i = 0 /\ log = << >> /\ status_text = "none"

---------------------------------------------------------------------------
(* Roster specification: one run of lines 126-133 with an empty cache,     *)
(* for every pair of answers of the exchange.                              *)

InitRoster ==
    /\ respListed \in Responses
    /\ respOtc \in Responses
    /\ df_stocks = << >> /\ st_error = FALSE /\ sidebar = "none"
    /\ pc = "start"
    /\ CacheIdle /\ ParseIdle /\ EvalIdle /\ ScanIdle
    /\ criteria = NoCriteria

LoadRoster ==
    /\ pc = "start"
    /\ LET r == get_tw_stock_list(respListed, respOtc)
       IN  /\ df_stocks' = r.df
           /\ st_error' = r.err
           /\ sidebar' = SidebarOf(r.df)
           /\ netRequests' = r.requests
    /\ pc' = "loaded"
    /\ UNCHANGED << respListed, respOtc, now, cache, parseVars, evalVars,
                    criteria, scanVars >>

NextRoster == LoadRoster

SpecRoster == InitRoster /\ [][NextRoster]_vars


---------------------------------------------------------------------------
(* Header-scan specification: fetch_and_parse on one table of up to        *)
(* MaxParseRows rows, long enough to put the keyword beyond the window.    *)

ParsePool == { rowHeader, rowTitle, rowStock1 }

InitParse ==
    /\ rawTable \in SeqsUpTo(ParsePool, MaxParseRows)
    /\ parsed = NoParse
    /\ pc = "fetched"
    /\ RosterIdle /\ CacheIdle /\ EvalIdle /\ ScanIdle
    /\ criteria = NoCriteria

ParseTable ==
    /\ pc = "fetched"
    /\ parsed' = fetch_and_parse(Table(rawTable))
    /\ pc' = "parsed"
    /\ UNCHANGED << rosterVars, cacheVars, rawTable, evalVars, criteria, scanVars >>

NextParse == ParseTable

SpecParse == InitParse /\ [][NextParse]_vars

---------------------------------------------------------------------------
(* What the claims speak of, stated from the inputs.                       *)

\* 0-based indices of the rows of a table that hold both keywords
KeywordRows(rows) == { k \in 0..(Len(rows) - 1) : RowHasKeywords(rows[k + 1]) }

\* the fetch or the parse of a segment fails: exception, no table, or no
\* keyword row among the first five
SegFailed(resp) ==
    \/ resp.kind # "table"
    \/ \A k \in KeywordRows(resp.rows) : k >= 5

FirstKeywordRow(rows) == CHOOSE k \in KeywordRows(rows) : \A m \in KeywordRows(rows) : k <= m

\* a cell of the form code + full-width space + name with a 4-character code
Qualifies(cell) ==
    /\ cell.t = "str"
    /\ Len(cell.s) >= 5
    /\ cell.s[5] = FWSPACE
    /\ \A j \in 1..4 : cell.s[j] # FWSPACE

NameEnd(s) ==
    IF \E j \in 6..Len(s) : s[j] = FWSPACE
    THEN (CHOOSE j \in 6..Len(s) : s[j] = FWSPACE /\ \A m \in 6..(j - 1) : s[m] # FWSPACE) - 1
    ELSE Len(s)

ListingOf(cell, suffix) ==
    [code |-> SubSeq(cell.s, 1, 4),
     name |-> SubSeq(cell.s, 6, NameEnd(cell.s)),
     yf_ticker |-> SubSeq(cell.s, 1, 4) \o suffix]

\* the listing a segment should contribute: the qualifying cells of the
\* code-and-name column below the header row, in row order
ExpectedSegment(resp, suffix) ==
    IF SegFailed(resp) THEN << >>
    ELSE LET k    == FirstKeywordRow(resp.rows)
             hdr  == resp.rows[k + 1]
             cols == { j \in 1..Len(hdr) : hdr[j] = CodeAndName }
         IN  IF cols = {} THEN << >>
             ELSE LET c     == CHOOSE j \in cols : TRUE
                      below == [j \in 1..(Len(resp.rows) - k - 1) |-> resp.rows[k + 1 + j][c]]
                      good  == SelectSeq(below, Qualifies)
                  IN  [j \in 1..Len(good) |-> ListingOf(good[j], suffix)]

\* the header row found is the one labelled with the code-and-name column
HeaderHasCodeAndName(resp) ==
    \E j \in 1..Len(resp.rows[FirstKeywordRow(resp.rows) + 1]) :
        resp.rows[FirstKeywordRow(resp.rows) + 1][j] = CodeAndName

ExpectedListed == ExpectedSegment(respListed, SuffixTW)
ExpectedOtc    == ExpectedSegment(respOtc, SuffixTWO)

---------------------------------------------------------------------------
(* Claims about the roster (SpecRoster).                                   *)

\* C1 as stated: whenever the fetch or the parse of either segment fails,
\* the roster returned is the static fallback sequence, which is non-empty.
C1_FallbackIsNonEmpty ==
    (pc = "loaded" /\ (SegFailed(respListed) \/ SegFailed(respOtc)))
        => df_stocks # << >>

\* What the code does instead: whenever the fetch or the parse of either
\* segment fails, the roster returned is empty, st.error is shown and the
\* sidebar reports the load failure.
RosterFailureIsEmpty ==
    (pc = "loaded" /\ (SegFailed(respListed) \/ SegFailed(respOtc)))
        => (df_stocks = << >> /\ st_error /\ sidebar = "error")

\* C2 as stated: when both segments are fetched with their header row found
\* and some row qualifies, the roster is the qualifying rows of the primary
\* segment (.TW) followed by those of the secondary (.TWO), and is non-empty.
C2_LiveRosterIsMerged ==
    (/\ pc = "loaded"
     /\ ~SegFailed(respListed) /\ ~SegFailed(respOtc)
     /\ HeaderHasCodeAndName(respListed) /\ HeaderHasCodeAndName(respOtc)
     /\ ExpectedListed \o ExpectedOtc # << >>)
        => (df_stocks = ExpectedListed \o ExpectedOtc /\ df_stocks # << >>)

\* C3: when exactly one segment fails and the other succeeds, the roster is
\* never the rows of the successful segment alone.
C3_NoPartialMerge ==
    /\ (pc = "loaded" /\ SegFailed(respListed) /\ ~SegFailed(respOtc)
            /\ ExpectedOtc # << >>) => df_stocks # ExpectedOtc
    /\ (pc = "loaded" /\ ~SegFailed(respListed) /\ SegFailed(respOtc)
            /\ ExpectedListed # << >>) => df_stocks # ExpectedListed

C3_Witness ==
    /\ pc = "loaded"
    /\ respListed.kind = "table" /\ SegFailed(respListed)
    /\ respOtc = Table(<< rowHeaderCode, rowStock1 >>)
    /\ Len(ExpectedOtc) = 1
    /\ df_stocks # ExpectedOtc

---------------------------------------------------------------------------
(* Claims about the header scan (SpecParse).                               *)

\* C10: when the keyword first appears in row k < 5, row k becomes the
\* column header and exactly the rows after k are returned; when no row
\* among the first five holds the keyword, no rows are returned.
C10_HeaderDetection ==
    pc = "parsed" =>
        LET K == KeywordRows(rawTable)
        IN  IF \E k \in K : k < 5
            THEN LET k == FirstKeywordRow(rawTable)
                 IN  /\ ~parsed.raised
                     /\ parsed.df.columns = rawTable[k + 1]
                     /\ parsed.df.rows =
                            [j \in 1..(Len(rawTable) - k - 1) |-> rawTable[k + 1 + j]]
            ELSE parsed.df = EmptyFrame

C10_Witness ==
    /\ pc = "parsed"
    /\ Len(rawTable) = 6
    /\ KeywordRows(rawTable) = {4, 5}
    /\ parsed.df.columns = rowHeader
    /\ parsed.df.rows = << rowHeader >>


---------------------------------------------------------------------------
(* Evaluator specification: analyze_stock on every snapshot and criteria   *)
(* of the sets below.                                                      *)

PEValues    == { Absent, None, Val(12346), Val(15000), Val(20000) }
PBValues    == { Absent, None, Val(1200), Val(1500) }
DYValues    == { Absent, None, Val(40), Val(50) }        \* fractions: 0.04, 0.05
ROEValues   == { Absent, None, Val(100), Val(120) }      \* fractions: 0.10, 0.12
PriceValues == { Absent, None, Val(100000) }

Snapshots ==
    { NoInfo } \cup
    [raises : {FALSE}, currentPrice : PriceValues, trailingPE : PEValues,
     priceToBook : PBValues, dividendYield : DYValues,
     returnOnEquity : ROEValues, industry : {"Semiconductors"}]

\* lines 136-139: the defaults, and values the widgets accept around them
CriteriaSet ==
    [pe : {15000, 999000, 1000000}, pb : {1500, 1000000},
     yield : {0, 4000}, roe : {0, 10000}]

TSMC == [code |-> << "2", "3", "3", "0" >>, name |-> << "T", "S", "M", "C" >>,
         yf_ticker |-> << "2", "3", "3", "0" >> \o SuffixTW]

InitEval ==
    /\ info \in Snapshots
    /\ criteria \in CriteriaSet
    /\ res = NoResult
    /\ pc = "call"
    /\ RosterIdle /\ CacheIdle /\ ParseIdle /\ ScanIdle

Analyze ==
    /\ pc = "call"
    /\ res' = analyze_stock(TSMC, info, criteria)
    /\ pc' = "analyzed"
    /\ UNCHANGED << rosterVars, cacheVars, parseVars, info, criteria, scanVars >>

NextEval == Analyze

SpecEval == InitEval /\ [][NextEval]_vars

---------------------------------------------------------------------------
(* Claims about the evaluator (SpecEval).                                  *)

Missing(field) == field.k # "val"
Eff(field, default) == IF Missing(field) THEN default ELSE field.v

\* the four strict comparisons on the values with the stated defaults
MeetsCriteria(snap, c) ==
    /\ Eff(snap.trailingPE, 999000) < c.pe
    /\ Eff(snap.priceToBook, 999000) < c.pb
    /\ Eff(snap.dividendYield, 0) * 100 > c.yield
    /\ Eff(snap.returnOnEquity, 0) * 100 > c.roe

\* C8: with a current price, a result is emitted exactly when PE < maxPE,
\* PB < maxPB, yield*100 > minYield and ROE*100 > minROE, a missing PE or
\* PB counting as 999 and a missing yield or ROE as 0.
C8_PassCondition ==
    (pc = "analyzed" /\ ~info.raises /\ info.currentPrice.k # "absent") =>
        (res.some <=> MeetsCriteria(info, criteria))

\* yield exactly at the threshold, everything else passing: nothing emitted
C8_Witness ==
    /\ pc = "analyzed" /\ ~info.raises /\ info.currentPrice = Val(100000)
    /\ info.trailingPE = Val(12346) /\ criteria.pe = 15000
    /\ info.priceToBook = Val(1200) /\ criteria.pb = 1500
    /\ info.dividendYield = Val(40) /\ criteria.yield = 4000
    /\ info.returnOnEquity = Val(120) /\ criteria.roe = 10000
    /\ ~res.some

\* C9 as stated: a snapshot with PE, PB, yield or ROE absent or null is
\* never emitted, whatever criteria the user enters.
C9_UnknownNeverEmitted ==
    (pc = "analyzed" /\ (\/ Missing(info.trailingPE) \/ Missing(info.priceToBook)
                         \/ Missing(info.dividendYield) \/ Missing(info.returnOnEquity)))
        => ~res.some

\* C9 amended: a snapshot with yield or ROE absent or null is never
\* emitted; one with PE (PB) absent or null is never emitted when the
\* maximum PE (PB) entered is at most 999.
C9_UnknownNeverEmittedBelowSentinel ==
    pc = "analyzed" =>
        /\ (Missing(info.dividendYield) \/ Missing(info.returnOnEquity)) => ~res.some
        /\ (Missing(info.trailingPE) /\ criteria.pe <= 999000) => ~res.some
        /\ (Missing(info.priceToBook) /\ criteria.pb <= 999000) => ~res.some

\* PE absent, every other field passing, default maximum PE: nothing emitted
C9_Witness ==
    /\ pc = "analyzed" /\ ~info.raises /\ info.currentPrice = Val(100000)
    /\ info.trailingPE = Absent /\ criteria.pe = 15000
    /\ info.priceToBook = Val(1200) /\ criteria.pb = 1500
    /\ info.dividendYield = Val(50) /\ criteria.yield = 4000
    /\ info.returnOnEquity = Val(120) /\ criteria.roe = 10000
    /\ ~res.some

---------------------------------------------------------------------------
(* Cache specification: reruns of the script as the clock advances.        *)

TickSeconds == TTL \div 2

CacheResponses == { Raise, Table(<< rowHeader, rowStock1 >>),
                    Table(<< rowHeaderCode, rowStock1 >>),
                    Table(<< rowHeaderCode, rowStock2 >>) }

InitCache ==
    /\ RosterIdle /\ CacheIdle /\ ParseIdle /\ EvalIdle /\ ScanIdle
    /\ criteria = NoCriteria
    /\ pc = "start"

Tick ==
    /\ now < MaxTicks * TickSeconds
    /\ now' = now + TickSeconds
    /\ UNCHANGED << rosterVars, pc, cache, netRequests, parseVars, evalVars,
                    criteria, scanVars >>

\* line 128 served from the cache: the body does not run
CallCached ==
    /\ fresh(cache, now)
    /\ df_stocks' = cache.value
    /\ sidebar' = SidebarOf(cache.value)
    /\ netRequests' = 0
    /\ pc' = "hit"
    /\ UNCHANGED << respListed, respOtc, st_error, now, cache, parseVars,
                    evalVars, criteria, scanVars >>

\* line 128 with no entry or an expired one: the body runs and is stored
CallFetch ==
    /\ ~fresh(cache, now)
    /\ \E r1 \in CacheResponses, r2 \in CacheResponses :
          LET r == get_tw_stock_list(r1, r2)
          IN  /\ respListed' = r1
              /\ respOtc' = r2
              /\ df_stocks' = r.df
              /\ st_error' = r.err
              /\ sidebar' = SidebarOf(r.df)
              /\ netRequests' = r.requests
              /\ cache' = [has |-> TRUE, value |-> r.df, storedAt |-> now]
    /\ pc' = "miss"
    /\ UNCHANGED << now, parseVars, evalVars, criteria, scanVars >>

NextCache == Tick \/ CallCached \/ CallFetch

SpecCache == InitCache /\ [][NextCache]_vars

---------------------------------------------------------------------------
(* Scan specification: load the roster, press the button, run the loop.    *)

ScanResponses ==
    { Raise } \cup
    { Table(<< rowHeaderCode >> \o t) : t \in SeqsUpTo({ rowStock1, rowStock2 }, MaxScanRows) }

Snap(pe, dy) ==
    [raises |-> FALSE, currentPrice |-> Val(100000), trailingPE |-> pe,
     priceToBook |-> Val(1200), dividendYield |-> dy,
     returnOnEquity |-> Val(120), industry |-> "Semiconductors"]

ScanSnapshots ==
    { NoInfo,                                          \* yfinance raises
      [Snap(Val(12346), Val(50)) EXCEPT !.currentPrice = Absent],
      Snap(Val(12346), Val(50)),                       \* passes the defaults
      Snap(Val(20000), Val(50)) }                      \* fails on PE

DefaultCriteria == [pe |-> 15000, pb |-> 1500, yield |-> 4000, roe |-> 10000]

\* line 144: positions of the range slider; 100 is its default upper end
SliderStops(df) == (0..Len(df)) \cup {100}

InitScan ==
    /\ RosterIdle /\ CacheIdle /\ ParseIdle /\ EvalIdle /\ ScanIdle
    /\ criteria = DefaultCriteria
    /\ pc = "start"

\* lines 126-133
LoadStocks ==
    /\ pc = "start"
    /\ \E r1 \in ScanResponses, r2 \in ScanResponses :
          LET r == get_tw_stock_list(r1, r2)
          IN  /\ respListed' = r1
              /\ respOtc' = r2
              /\ df_stocks' = r.df
              /\ st_error' = r.err
              /\ sidebar' = SidebarOf(r.df)
              /\ netRequests' = r.requests
    /\ pc' = "ui"
    /\ UNCHANGED << now, cache, parseVars, evalVars, criteria, scanVars >>

\* lines 193-204 with the slider at (s, e)
ClickScan ==
    /\ pc = "ui"
    /\ \E s \in SliderStops(df_stocks), e \in SliderStops(df_stocks) :
          /\ s <= e
          /\ start_idx' = s
          /\ end_idx' = e
          /\ IF df_stocks = << >>
             THEN /\ pc' = "refused"
                  /\ UNCHANGED << target_stocks, status_text >>
             ELSE /\ pc' = "loop"
                  /\ target_stocks' = iloc(df_stocks, s, e)
                  /\ status_text' = "empty"
    /\ results' = << >>
    /\ i' = 0
    /\ log' = << >>
    /\ UNCHANGED << rosterVars, cacheVars, parseVars, evalVars, criteria >>

\* one pass of lines 205-217
ScanEntry ==
    /\ pc = "loop"
    /\ i < Len(target_stocks)
    /\ \E answer \in ScanSnapshots :
          LET r == analyze_stock(target_stocks[i + 1], answer, criteria)
          IN  /\ results' = collect(results, r)
              /\ log' = Append(log, [info |-> answer, some |-> r.some])
    /\ status_text' = "analyzing"
    /\ IF time_sleep_raises
       THEN pc' = "aborted" /\ i' = i
       ELSE pc' = "loop" /\ i' = i + 1
    /\ UNCHANGED << rosterVars, cacheVars, parseVars, evalVars, criteria,
                    start_idx, end_idx, target_stocks >>

\* lines 219-220, reached when the loop has no entry left
FinishScan ==
    /\ pc = "loop"
    /\ i >= Len(target_stocks)
    /\ status_text' = "complete"
    /\ pc' = "done"
    /\ UNCHANGED << rosterVars, cacheVars, parseVars, evalVars, criteria,
                    start_idx, end_idx, target_stocks, results, i, log >>

NextScan == LoadStocks \/ ClickScan \/ ScanEntry \/ FinishScan

SpecScan == InitScan /\ [][NextScan]_vars


---------------------------------------------------------------------------
(* Claims about the cache (SpecCache).                                     *)

---------------------------------------------------------------------------
(* Claims about the scan (SpecScan).                                       *)

Scanning == pc \in {"loop", "aborted", "done"}

\* the entry was fetched with a price and meets the criteria
Emits(snap, c) ==
    ~snap.raises /\ snap.currentPrice.k # "absent" /\ MeetsCriteria(snap, c)

\* the Metric Fetcher failed for the entry: the provider raised or gave no price
FetchFailed(snap) == snap.raises \/ snap.currentPrice.k = "absent"

FetchFailures == Cardinality({ j \in 1..Len(log) : FetchFailed(log[j].info) })

ReturnedNone == Cardinality({ j \in 1..Len(log) : ~log[j].some })

\* C5 as stated: no step of the loop aborts the batch, and the scan is
\* complete only when every entry of the slice has been evaluated.
C5_ScanRunsToCompletion ==
    /\ pc # "aborted"
    /\ pc = "done" => Len(log) = Len(target_stocks)

===========================================================================
